---- MODULE Spec2Model ----
(***************************************************************************)
(* Rotating ring with a gap: the escape / spawn / fade lifecycle of the    *)
(* balls, the spawn throttle, the simulation clock and the pause button.   *)
(*                                                                         *)
(* Spec, SpecPause and SpecFade model RotatingGateBalls with the           *)
(* simulation clock; SpecV4 models its oldest variant, which reads         *)
(* performance.now(); SpecMin models PhysicsVisualMinimal.                 *)
(*                                                                         *)
(* Units.  Times are integer milliseconds.  Radii are in 1/1000 px.        *)
(* Angles are in micro-radians.  Opacity is in 1/400 (fadeDur = 400 ms, so *)
(* the linear fade is exact on integer milliseconds).                      *)
(*                                                                         *)
(* Positions and velocities are real-valued in the program; what the       *)
(* lifecycle reads from them each tick is the geometric classification of  *)
(* each ball (in the gap core, in the near-gap band, fully outside, at the *)
(* rim, moving outward).  That classification is the input of a tick.      *)
(***************************************************************************)
EXTENDS Integers, Sequences, FiniteSets, TLC

VARIABLES
  balls,         \* ballsRef.current: sequence of Ball records
  spawnEnabled,  \* spawnEnabledRef.current
  gapStart,      \* gapStartRef.current (micro-radians)
  simNowMs,      \* simNowMsRef.current (ms)
  isRunning,     \* isRunningRef.current
  GLOBAL_ID,     \* module-level id counter
  perfNow,       \* performance.now() as read by the variants without simNowMs
  lastFrame,     \* the latest animation frame: did it step, and its clamped dt
  probe          \* the latest call of a math helper made on its own: arguments, result

vars == <<balls, spawnEnabled, gapStart, simNowMs, isRunning, GLOBAL_ID,
          perfNow, lastFrame, probe>>

----------------------------------------------------------------------------
\* Bounds of the model

\* the clocks are not advanced beyond this many ms
MaxNow == 1800
\* balls enter the gap only while the clock is at most this many ms
GapWindow == 330
\* a run that is followed across a full turn of the gap is picked up after
\* this many 33 ms ticks in which nothing happened to the seed ball
LateTicks == 316
\* ... and from there for this many ms
LateWindow == 132
\* balls come to the rim beside the gap only while the clock is at most
\* this many ms
GraceWindow == 165
\* a run that is picked up with many balls has at most this many active ones
MaxCrowd == 18
\* the pairwise resolver is called at most this many times in a row
MaxPasses == 3
\* a call of stepSimulation followed statement by statement has a list of
\* at most this many balls
MaxWalk == 3
\* one ball alone enters the gap only while there are at most this many balls
SoloMax == 3
\* performance.now() is not advanced beyond this many ms
MaxPerfNow == 400
\* in the removal study balls enter the gap only up to this many ms
OrderWindow == 198

\* the reset handler is not run once the id counter is above this
MaxResetId == 33
\* in the reset study performance.now() is not advanced beyond this many ms
ResetWindow == 231

\* significant bits of the model's floats
Sig == 22
\* whole turns and micro-radians around them given to wrapAngle on its own
MaxTurns == 5
MaxOff == 40
\* eighths of a turn given to angleInArc as arc start
MaxEighths == 8
\* in the fade study the seed ball enters the gap only up to this many ms
FadeWindow == 4

----------------------------------------------------------------------------
\* Tunables of RotatingGateBalls

maxBalls == 300
\* 10 px, in 1/1000 px
minBallRadius == 10000
\* 10 px, in 1/1000 px
initialRadius == 10000
\* 0.6 rad/s = 600 micro-radians per ms
rotationSpeed == 600
\* Math.PI * 2 in micro-radians, as the nearest number the model's floats hold
TwoPi == 6283184
\* clamp(dt, 0, 0.033): upper end, in ms
MaxDt == 33
\* population at which splitting is switched off
SpawnOffAt == 20
\* population at which splitting is switched on again
SpawnOnAt == 1
\* consecutive ticks in the escape zone needed to escape
EscapeTicks == 2
\* ms added to now when the exit grace window is armed
ExitGrace == 180
\* ms after escape before the fade starts
FadeDelay == 1000
\* const fadeDur = 400
fadeDur == 400
\* b.r * 0.98, as a percentage
ShrinkPct == 98

\* Tunables of PhysicsVisualMinimal
\* 3 px, in 1/1000 px
minBallRadiusMin == 3000
\* 8 px, in 1/1000 px
initialRadiusMin == 8000
\* removed.r * 0.96, as a percentage
ShrinkPctMin == 96

\* Tunables of the oldest variant of RotatingGateBalls
\* 4 px, in 1/1000 px
minBallRadiusV4 == 4000
\* 12 px, in 1/1000 px
initialRadiusV4 == 12000
\* b.r * 0.96, as a percentage
ShrinkPctV4 == 96

\* Tunables of the two collision resolvers.  Where a resolver is called on
\* its own, lengths are in 1/100 px and speeds in 1/1000 px/s.
\* restitutionWall = 1.00, in percent
restitutionWall == 100
\* restitutionBall = 0.98, in percent
restitutionBall == 98
\* const eps = 0.8, in 1/100 px
EpsRing == 80
\* if (vn > 5), in 1/1000 px/s
BounceMin == 5000
\* b.vx *= 0.999, per mille
Damp == 999

\* escapedAt / opacity === undefined
Undef == -1

\* no math helper has been called on its own
NoProbe == [op |-> "none", in |-> <<>>, out |-> 0]

----------------------------------------------------------------------------
\* Math helpers

Max(a, b) == IF a >= b THEN a ELSE b
Min(a, b) == IF a <= b THEN a ELSE b

clamp(v, lo, hi) == Max(lo, Min(hi, v))

\* JavaScript %: the remainder has the sign of the dividend
JsRem(a, m) == IF a >= 0 THEN a % m ELSE -((-a) % m)

\* Numbers are IEEE doubles in the program.  The model keeps them as integers
\* (micro-radians for angles) held to Sig significant bits: an integer below
\* 2^Sig is exact, a larger one is rounded to the nearest multiple of its
\* unit in the last place, ties to even.  Near 2*pi the unit is 2 (doubles:
\* 2^-50).  % is exact in IEEE arithmetic; + is rounded.

RECURSIVE Pow2(_)
Pow2(n) == IF n = 0 THEN 1 ELSE 2 * Pow2(n - 1)

RECURSIVE UlpFrom(_, _)
UlpFrom(x, g) == IF x < g * Pow2(Sig) THEN g ELSE UlpFrom(x, 2 * g)

\* the unit in the last place of a number of magnitude x
Ulp(x) == UlpFrom(IF x < 0 THEN -x ELSE x, 1)

\* the float nearest to x, ties to even
FlRound(x) ==
  LET m  == IF x < 0 THEN -x ELSE x
      g  == Ulp(m)
      q  == m \div g
      r  == m % g
      up == 2 * r > g \/ (2 * r = g /\ q % 2 = 1)
      v  == IF up THEN (q + 1) * g ELSE q * g
  IN  IF x < 0 THEN -v ELSE v

wrapAngle(theta) ==
  LET t == JsRem(theta, TwoPi)
  IN  IF t < 0 THEN FlRound(t + TwoPi) ELSE t

\* mutant: the branch for an arc that wraps past 2*pi is missing
angleInArc_NoWrap(angle, arcStart, arcLen) ==
  LET a == wrapAngle(angle)
      s == wrapAngle(arcStart)
      e == FlRound(s + arcLen)
  IN  a >= s /\ a <= e

angleInArc(angle, arcStart, arcLen) ==
  LET a == wrapAngle(angle)
      s == wrapAngle(arcStart)
      e == FlRound(s + arcLen)
  IN  IF e < TwoPi
      THEN a >= s /\ a <= e
      ELSE a >= s \/ a <= FlRound(e - TwoPi)

----------------------------------------------------------------------------
\* Geometry of one ball on one tick, as read by stepSimulation.
\*   inGap        angle inside the whole gap sector
\*   inGapCore    angle inside the gap shrunk by the radius padding
\*   inGapNear    angle inside the core widened by nearMargin
\*   fullyOutside dist - r >= R + tolerance (0.5 px, or 0 in the oldest variant)
\*   atRim        dist - r >= R - slack (0.6 px or 0.5 px)
\*   vnPos        velocity along the outward normal > 0
\*   touching     dist + r > R
\*   ringHit      the ball overlaps the ring and moves into it, from the side
\*                its centre is on: resolveRingCollision, if called, snaps
\*                the ball off the ring and reflects its velocity
\* The named geometries lie away from the thresholds, so they read the same
\* under each variant's tolerance.

Geom(gap, core, near, out, rim, vn, touch, hit) ==
  [inGap |-> gap, inGapCore |-> core, inGapNear |-> near, fullyOutside |-> out,
   atRim |-> rim, vnPos |-> vn, touching |-> touch, ringHit |-> hit]

\* well inside the ring, away from the gap
GInside   == Geom(FALSE, FALSE, FALSE, FALSE, FALSE, FALSE, FALSE, FALSE)
\* pressing on the solid arc from inside
GWall     == Geom(FALSE, FALSE, FALSE, FALSE, FALSE, TRUE, TRUE, TRUE)
\* in the near-gap band but not the core, at the rim
GNearRim  == Geom(TRUE, FALSE, TRUE, FALSE, TRUE, TRUE, TRUE, TRUE)
\* in the gap core, still inside the ring radius
GCoreIn   == Geom(TRUE, TRUE, TRUE, FALSE, FALSE, TRUE, FALSE, FALSE)
\* in the gap core, fully outside, moving outward: the escape predicate
GCoreOut  == Geom(TRUE, TRUE, TRUE, TRUE, TRUE, TRUE, TRUE, FALSE)
\* in the gap core, fully outside, but moving inward
GCoreBack == Geom(TRUE, TRUE, TRUE, TRUE, TRUE, FALSE, TRUE, FALSE)
\* beyond the ring, outside the gap sector, moving away
GBeyond   == Geom(FALSE, FALSE, FALSE, TRUE, TRUE, TRUE, TRUE, FALSE)
\* outside the gap sector, centre beyond the ring, falling back onto it
GFallBack == Geom(FALSE, FALSE, FALSE, FALSE, TRUE, FALSE, TRUE, TRUE)

\* inGapCore && fullyOutside && vn > 0
EscapePredicate(g) == g.inGapCore /\ g.fullyOutside /\ g.vnPos

----------------------------------------------------------------------------
\* The collision resolvers, as functions of positions and velocities.
\* Quotients are integer quotients; the inputs given to the resolvers are
\* chosen so that every quotient is exact.

RECURSIVE SqrtIter(_, _)
SqrtIter(n, x) ==
  LET y == (x + n \div x) \div 2
  IN  IF y >= x THEN x ELSE SqrtIter(n, y)

\* Math.hypot(dx, dy), whole part
Hypot(dx, dy) ==
  LET n == dx * dx + dy * dy
  IN  IF n = 0 THEN 0 ELSE SqrtIter(n, n)

\* mutant: the ball is put back at R - r + eps
resolveRingCollision_EpsOutside(b, cx, cy, R) ==
  LET dx     == b.x - cx
      dy     == b.y - cy
      dist   == Hypot(dx, dy)
      e      == Min(100, restitutionWall)
      target == R - b.r + EpsRing
      vn     == (b.vx * dx + b.vy * dy) \div dist
      j      == ((100 + e) * vn) \div 100
      vx1    == IF vn > BounceMin THEN b.vx - (j * dx) \div dist ELSE b.vx
      vy1    == IF vn > BounceMin THEN b.vy - (j * dy) \div dist ELSE b.vy
  IN  IF dist > 0 /\ dist > target
      THEN [b EXCEPT !.x = cx + (dx * target) \div dist,
                     !.y = cy + (dy * target) \div dist,
                     !.vx = (vx1 * Damp) \div 1000,
                     !.vy = (vy1 * Damp) \div 1000]
      ELSE b

\* mutant: a ball that reaches the ring is reflected at any outward speed
resolveRingCollision_NoThreshold(b, cx, cy, R) ==
  LET dx     == b.x - cx
      dy     == b.y - cy
      dist   == Hypot(dx, dy)
      e      == Min(100, restitutionWall)
      target == R - b.r - EpsRing
      vn     == (b.vx * dx + b.vy * dy) \div dist
      j      == ((100 + e) * vn) \div 100
      vx1    == IF vn > 0 THEN b.vx - (j * dx) \div dist ELSE b.vx
      vy1    == IF vn > 0 THEN b.vy - (j * dy) \div dist ELSE b.vy
  IN  IF dist > 0 /\ dist > target
      THEN [b EXCEPT !.x = cx + (dx * target) \div dist,
                     !.y = cy + (dy * target) \div dist,
                     !.vx = (vx1 * Damp) \div 1000,
                     !.vy = (vy1 * Damp) \div 1000]
      ELSE b

\* resolveRingCollision(b, cx, cy, R): the ball afterwards.  A ball exactly
\* at the centre has dist = 1e-6 and a zero normal: it is beyond a target
\* that is not positive, and is then put where it is, with damped velocity.
resolveRingCollision(b, cx, cy, R) ==
  LET dx     == b.x - cx
      dy     == b.y - cy
      dist   == Hypot(dx, dy)
      e      == Min(100, restitutionWall)
      target == R - b.r - EpsRing
      vn     == (b.vx * dx + b.vy * dy) \div dist
      j      == ((100 + e) * vn) \div 100
      vx1    == IF vn > BounceMin THEN b.vx - (j * dx) \div dist ELSE b.vx
      vy1    == IF vn > BounceMin THEN b.vy - (j * dy) \div dist ELSE b.vy
  IN  IF dist = 0
      THEN (IF target <= 0
            THEN [b EXCEPT !.vx = (b.vx * Damp) \div 1000,
                           !.vy = (b.vy * Damp) \div 1000]
            ELSE b)
      ELSE IF dist > target
      THEN [b EXCEPT !.x = cx + (dx * target) \div dist,
                     !.y = cy + (dy * target) \div dist,
                     !.vx = (vx1 * Damp) \div 1000,
                     !.vy = (vy1 * Damp) \div 1000]
      ELSE b

\* mutant: each ball is moved by the whole overlap
CollidePair_WholeOverlap(s, i, k) ==
  LET a       == s[i]
      b       == s[k]
      dx      == b.x - a.x
      dy      == b.y - a.y
      dist    == Hypot(dx, dy)
      minDist == a.r + b.r
      overlap == minDist - dist
      mx      == (dx * overlap) \div dist
      my      == (dy * overlap) \div dist
      rel     == ((b.vx - a.vx) * dx + (b.vy - a.vy) * dy) \div dist
      j       == -(((100 + restitutionBall) * rel) \div 200)
      jx      == IF rel < 0 THEN (j * dx) \div dist ELSE 0
      jy      == IF rel < 0 THEN (j * dy) \div dist ELSE 0
  IN  IF dist > 0 /\ dist < minDist
      THEN [s EXCEPT ![i] = [a EXCEPT !.x = a.x - mx, !.y = a.y - my,
                                      !.vx = a.vx - jx, !.vy = a.vy - jy],
                     ![k] = [b EXCEPT !.x = b.x + mx, !.y = b.y + my,
                                      !.vx = b.vx + jx, !.vy = b.vy + jy]]
      ELSE s

\* The body of resolveBallBallCollisions' loops for the pair (i, k), i < k.
\* Two balls with the same centre have dist = 1e-6 and a zero normal: they
\* are neither moved nor given an impulse.
CollidePair(s, i, k) ==
  LET a       == s[i]
      b       == s[k]
      dx      == b.x - a.x
      dy      == b.y - a.y
      dist    == Hypot(dx, dy)
      minDist == a.r + b.r
      overlap == minDist - dist
      mx      == (dx * overlap) \div (2 * dist)
      my      == (dy * overlap) \div (2 * dist)
      rel     == ((b.vx - a.vx) * dx + (b.vy - a.vy) * dy) \div dist
      j       == -(((100 + restitutionBall) * rel) \div 200)
      jx      == IF rel < 0 THEN (j * dx) \div dist ELSE 0
      jy      == IF rel < 0 THEN (j * dy) \div dist ELSE 0
  IN  IF dist > 0 /\ dist < minDist
      THEN [s EXCEPT ![i] = [a EXCEPT !.x = a.x - mx, !.y = a.y - my,
                                      !.vx = a.vx - jx, !.vy = a.vy - jy],
                     ![k] = [b EXCEPT !.x = b.x + mx, !.y = b.y + my,
                                      !.vx = b.vx + jx, !.vy = b.vy + jy]]
      ELSE s

\* the loops of resolveBallBallCollisions from the pair (i, k) on:
\* for i, for k = i + 1 .. n
RECURSIVE CollideFrom(_, _, _)
CollideFrom(s, i, k) ==
  IF i >= Len(s) THEN s
  ELSE IF k > Len(s) THEN CollideFrom(s, i + 1, i + 2)
  ELSE CollideFrom(CollidePair(s, i, k), i, k + 1)

\* resolveBallBallCollisions() on the list s: the list afterwards
resolveBallBallCollisions(s) == CollideFrom(s, 1, 2)

----------------------------------------------------------------------------
\* Ball factory

\* where a ball was created
AtCentre == "centre"
AtPlusJ  == "centre+j"
AtMinusJ == "centre-j"

\* parent is the id of the escaped ball that queued this one, 0 for a seed;
\* obs and ringResolved record the latest tick's geometry and whether the
\* ring resolver was called on the ball in it
makeBall(id, at, radius, parent) ==
  [id |-> id, r |-> radius, at |-> at, parent |-> parent,
   escapedAt |-> Undef, opacity |-> Undef, spawned |-> FALSE,
   gapOutsideTicks |-> 0, exitGraceUntil |-> 0,
   obs |-> GInside, ringResolved |-> FALSE]

----------------------------------------------------------------------------
\* One iteration of the per-ball loop of stepSimulation

\* mutant: the Math.max clamp is dropped
ChildRadius_Unclamped(b) == (b.r * ShrinkPct) \div 100

\* mutant: the child is 2 % larger than its parent
ChildRadius_Grows(b) == Max(minBallRadius, (b.r * (200 - ShrinkPct)) \div 100)

\* Math.max(minBallRadius, b.r * 0.98)
ChildRadius(b) == Max(minBallRadius, (b.r * ShrinkPct) \div 100)

\* mutant: the escapedAt === undefined test is dropped
InEscapeZone_NoGuard(b, g) == EscapePredicate(g)

\* in the escape zone and not escaped yet
InEscapeZone(b, g) == EscapePredicate(g) /\ b.escapedAt = Undef

\* mutant: the debounce is dropped, one tick in the zone is enough
Debounced_Immediate(ticks) == ticks >= 1

\* if (b.gapOutsideTicks >= 2)
Debounced(ticks) == ticks >= EscapeTicks

\* mutant: spawnEnabledRef is not read
SpawnAllowed_FlagIgnored(b, flag, len) ==
  len <= maxBalls /\ ChildRadius(b) >= minBallRadius

\* balls.length <= maxBalls && newR >= minBallRadius, under spawnEnabled
SpawnAllowed(b, flag, len) ==
  flag /\ len <= maxBalls /\ ChildRadius(b) >= minBallRadius

\* mutant: only the first child is pushed
QueueChildren_OnlyOne(b, id) ==
  <<makeBall(id, AtPlusJ, ChildRadius(b), b.id)>>

\* mutant: the id counter is not advanced between the two children
QueueChildren_SameId(b, id) ==
  <<makeBall(id, AtPlusJ, ChildRadius(b), b.id),
    makeBall(id, AtMinusJ, ChildRadius(b), b.id)>>

\* the two makeBall calls pushed on toSpawn; id is GLOBAL_ID before them
QueueChildren(b, id) ==
  <<makeBall(id, AtPlusJ, ChildRadius(b), b.id),
    makeBall(id + 1, AtMinusJ, ChildRadius(b), b.id)>>

\* mutant: the fade runs at half the rate
FadeOpacity_HalfRate(elapsed) == Max(0, fadeDur - (elapsed - FadeDelay) \div 2)

\* mutant: the ball fades in instead of out
FadeOpacity_FadeIn(elapsed) == Min(fadeDur, elapsed - FadeDelay)

\* b.opacity = Math.max(0, 1 - (elapsed - 1000) / fadeDur), in 1/400
FadeOpacity(elapsed) == Max(0, fadeDur - (elapsed - FadeDelay))

\* if (elapsed > 1000)
FadeStarted(elapsed) == elapsed > FadeDelay

\* !suppressCollision && b.escapedAt === undefined && !inExitGrace
RingApplies(g, escAt, grace, now) ==
  LET closeToExit == g.inGapNear /\ g.atRim
      suppressCollision == g.inGapCore \/ (g.inGapNear /\ closeToExit)
  IN  ~suppressCollision /\ escAt = Undef /\ ~(grace > now)

\* mutant: the grace is cleared on a tick away from the exit
ExitGraceUntil_Cleared(b, g, now) ==
  IF g.inGapNear /\ g.atRim THEN Max(b.exitGraceUntil, now + ExitGrace)
  ELSE 0

\* if (closeToExit) b.exitGraceUntil = Math.max(b.exitGraceUntil || 0, now + 180)
ExitGraceUntil(b, g, now) ==
  IF g.inGapNear /\ g.atRim THEN Max(b.exitGraceUntil, now + ExitGrace)
  ELSE b.exitGraceUntil

\* The ball after its iteration, whether it queued two children (spawn) and
\* whether its index was pushed on toRemove (remove).
\* flag is spawnEnabledRef.current, len is balls.length during the loop.
StepBall(b, g, now, flag, len) ==
  LET inZone   == InEscapeZone(b, g)
      ticks    == IF inZone THEN b.gapOutsideTicks + 1 ELSE 0
      esc      == inZone /\ Debounced(ticks)
      escAt    == IF esc THEN now ELSE b.escapedAt
      op0      == IF esc THEN fadeDur ELSE b.opacity
      grace    == ExitGraceUntil(b, g, now)
      elapsed  == now - escAt
      fading   == escAt # Undef /\ FadeStarted(elapsed)
      op1      == IF fading THEN FadeOpacity(elapsed) ELSE op0
  IN  [b |-> [b EXCEPT !.gapOutsideTicks = ticks,
                       !.escapedAt = escAt,
                       !.opacity = op1,
                       !.spawned = IF esc THEN TRUE ELSE b.spawned,
                       !.exitGraceUntil = grace,
                       !.obs = g,
                       !.ringResolved = RingApplies(g, escAt, grace, now)],
       spawn  |-> esc /\ SpawnAllowed(b, flag, len),
       remove |-> fading /\ op1 <= 0]

----------------------------------------------------------------------------
\* Array helpers

\* mutant: the index is taken as 0-based, one place too far
Splice_OffByOne(s, idx) ==
  IF idx + 1 > Len(s) THEN s
  ELSE SubSeq(s, 1, idx) \o SubSeq(s, idx + 2, Len(s))

\* balls.splice(idx, 1), idx 1-based
Splice(s, idx) ==
  IF idx < 1 \/ idx > Len(s) THEN s
  ELSE SubSeq(s, 1, idx - 1) \o SubSeq(s, idx + 1, Len(s))

RECURSIVE SpliceAll(_, _)
\* for (const idx of toRemove) balls.splice(idx, 1)
SpliceAll(s, idxs) ==
  IF idxs = <<>> THEN s
  ELSE SpliceAll(Splice(s, Head(idxs)), Tail(idxs))

RECURSIVE InsertDesc(_, _)
InsertDesc(x, s) ==
  IF s = <<>> THEN <<x>>
  ELSE IF x >= Head(s) THEN <<x>> \o s
  ELSE <<Head(s)>> \o InsertDesc(x, Tail(s))

\* mutant: toRemove is left in ascending order
SortDesc_Ascending(s) == s

RECURSIVE SortDesc(_)
\* toRemove.sort((a, b) => b - a)
SortDesc(s) ==
  IF s = <<>> THEN <<>> ELSE InsertDesc(Head(s), SortDesc(Tail(s)))

RECURSIVE IndicesWhere(_, _, _)
\* the indices i >= from with f[i], ascending (the order they are pushed in)
IndicesWhere(f, from, n) ==
  IF from > n THEN <<>>
  ELSE (IF f[from] THEN <<from>> ELSE <<>>) \o IndicesWhere(f, from + 1, n)

RECURSIVE Flatten(_)
\* the concatenation of a sequence of sequences
Flatten(ss) == IF ss = <<>> THEN <<>> ELSE Head(ss) \o Flatten(Tail(ss))

----------------------------------------------------------------------------
\* stepSimulation(dt): balls, flag, gap and id counter after one tick.
\* now is simNowMsRef.current, already advanced by the caller.

\* mutant: no hysteresis, splitting is on whenever fewer than 20 balls
SpawnPolicy_NoHysteresis(flag, len) == len < SpawnOffAt

\* mutant: splitting is never switched off
SpawnPolicy_NeverOff(flag, len) == IF len <= SpawnOnAt THEN TRUE ELSE flag

\* if (balls.length >= 20) off; if (balls.length <= 1) on
SpawnPolicy(flag, len) ==
  LET f1 == IF len >= SpawnOffAt THEN FALSE ELSE flag
  IN  IF len <= SpawnOnAt THEN TRUE ELSE f1

\* mutant: the forced seed is made only while splitting is enabled
Reseed_OnlyWhenSpawning(kept, nextId) ==
  IF Len(kept) = 0 /\ spawnEnabled
  THEN <<makeBall(nextId, AtCentre, initialRadius, 0)>>
  ELSE kept

\* mutant: an emptied list is left empty
Reseed_Never(kept, nextId) == kept

\* if (balls.length === 0) balls.push(makeBall(cx2, cy2, initialRadius))
Reseed(kept, nextId) ==
  IF Len(kept) = 0 THEN <<makeBall(nextId, AtCentre, initialRadius, 0)>>
  ELSE kept

\* mutant: the gap stands still on a tick in which a ball is fading
RotateGap_HeldByEscape(g, dt) ==
  IF \E i \in 1..Len(balls) : balls[i].escapedAt # Undef
  THEN g
  ELSE wrapAngle(g + rotationSpeed * dt)

\* "Rotate the gap": the new gapStartRef.current
RotateGap(g, dt) == wrapAngle(g + rotationSpeed * dt)

\* The per-ball loop reads and writes one ball at a time; what it queues
\* (toSpawn, toRemove) is applied after resolveBallBallCollisions, which
\* moves balls but reads and writes no lifecycle field.
stepSimulation(dt, obs, now) ==
  LET n      == Len(balls)
      flag   == SpawnPolicy(spawnEnabled, n)
      res    == [i \in 1..n |-> StepBall(balls[i], obs[i], now, flag, n)]
      moved  == [i \in 1..n |-> res[i].b]
      spawners == IndicesWhere([i \in 1..n |-> res[i].spawn], 1, n)
      toSpawn == Flatten([k \in 1..Len(spawners) |->
                    QueueChildren(balls[spawners[k]], GLOBAL_ID + 2 * (k - 1))])
      toRemove == IndicesWhere([i \in 1..n |-> res[i].remove], 1, n)
      pushed == moved \o toSpawn
      kept   == SpliceAll(pushed, SortDesc(toRemove))
      nextId == GLOBAL_ID + Len(toSpawn)
      final  == Reseed(kept, nextId)
  IN  /\ spawnEnabled' = flag
      /\ gapStart' = RotateGap(gapStart, dt)
      /\ balls' = final
      /\ GLOBAL_ID' = IF Len(final) > Len(kept) THEN nextId + 1 ELSE nextId

----------------------------------------------------------------------------
\* stepSimulation statement by statement.  A walk is the state of one call:
\*   list      ballsRef.current
\*   geo       the geometry each ball of the list has once it is integrated
\*   now, flag simNowMsRef.current, spawnEnabledRef.current
\*   toSpawn, toRemove, nextId   the two queues and GLOBAL_ID
\*   log       the statements executed, in order, as <<what, ball id>>

\* the geometry of the ball at index i; a ball that was not in the list at
\* the start of the call is at the centre
GeoOf(w, i) == IF i <= Len(w.geo) THEN w.geo[i] ELSE GInside

Logged(w, what, i) == Append(w.log, <<what, w.list[i].id>>)

\* gravity, position, trail, drag: the ball takes its new position
IntegrateAt(w, i) ==
  [w EXCEPT !.list[i].obs = GeoOf(w, i),
            !.log = Logged(w, "integrate", i)]

\* mutant: the two children are pushed on the list itself
ClassifyAt_PushNow(w, i) ==
  LET b      == w.list[i]
      g      == b.obs
      inZone == InEscapeZone(b, g)
      ticks  == IF inZone THEN b.gapOutsideTicks + 1 ELSE 0
      esc    == inZone /\ Debounced(ticks)
      spawn  == esc /\ SpawnAllowed(b, w.flag, Len(w.list))
      b1     == [b EXCEPT !.gapOutsideTicks = ticks,
                          !.escapedAt = IF esc THEN w.now ELSE b.escapedAt,
                          !.opacity = IF esc THEN fadeDur ELSE b.opacity,
                          !.spawned = IF esc THEN TRUE ELSE b.spawned]
  IN  [w EXCEPT !.list = IF spawn
                         THEN [w.list EXCEPT ![i] = b1] \o QueueChildren(b, w.nextId)
                         ELSE [w.list EXCEPT ![i] = b1],
                !.nextId = IF spawn THEN w.nextId + 2 ELSE w.nextId,
                !.log = Logged(w, "classify", i)]

\* the escape detector: the debounce counter, the escape, the spawn request
ClassifyAt(w, i) ==
  LET b      == w.list[i]
      g      == b.obs
      inZone == InEscapeZone(b, g)
      ticks  == IF inZone THEN b.gapOutsideTicks + 1 ELSE 0
      esc    == inZone /\ Debounced(ticks)
      spawn  == esc /\ SpawnAllowed(b, w.flag, Len(w.list))
      b1     == [b EXCEPT !.gapOutsideTicks = ticks,
                          !.escapedAt = IF esc THEN w.now ELSE b.escapedAt,
                          !.opacity = IF esc THEN fadeDur ELSE b.opacity,
                          !.spawned = IF esc THEN TRUE ELSE b.spawned]
  IN  [w EXCEPT !.list[i] = b1,
                !.toSpawn = IF spawn THEN w.toSpawn \o QueueChildren(b, w.nextId)
                            ELSE w.toSpawn,
                !.nextId = IF spawn THEN w.nextId + 2 ELSE w.nextId,
                !.log = Logged(w, "classify", i)]

\* the exit grace and the call of resolveRingCollision
BoundaryAt(w, i) ==
  LET b     == w.list[i]
      g     == b.obs
      grace == ExitGraceUntil(b, g, w.now)
  IN  [w EXCEPT !.list[i].exitGraceUntil = grace,
                !.list[i].ringResolved = RingApplies(g, b.escapedAt, grace, w.now),
                !.log = Logged(w, "boundary", i)]

\* the fade of an escaped ball and the removal request
FadeAt(w, i) ==
  LET b       == w.list[i]
      elapsed == w.now - b.escapedAt
      fading  == b.escapedAt # Undef /\ FadeStarted(elapsed)
      op      == IF fading THEN FadeOpacity(elapsed) ELSE b.opacity
  IN  [w EXCEPT !.list[i].opacity = op,
                !.toRemove = IF fading /\ op <= 0 THEN Append(w.toRemove, i)
                             ELSE w.toRemove,
                !.log = Logged(w, "fade", i)]

\* for (let i = 0; i < balls.length; i++) { ... }, from index i on
RECURSIVE LoopFrom(_, _)
LoopFrom(w, i) ==
  IF i > Len(w.list) THEN w
  ELSE LoopFrom(FadeAt(BoundaryAt(ClassifyAt(IntegrateAt(w, i), i), i), i), i + 1)

\* the same four steps taken one phase at a time over the whole list
PhaseAt(p, w, i) ==
  CASE p = 1 -> IntegrateAt(w, i)
    [] p = 2 -> ClassifyAt(w, i)
    [] p = 3 -> BoundaryAt(w, i)
    [] OTHER -> FadeAt(w, i)

RECURSIVE PassFrom(_, _, _)
PassFrom(p, w, i) ==
  IF i > Len(w.list) THEN w ELSE PassFrom(p, PhaseAt(p, w, i), i + 1)

PhasedLoop(w) == PassFrom(4, PassFrom(3, PassFrom(2, PassFrom(1, w, 1), 1), 1), 1)

RECURSIVE LogEach(_, _, _)
\* log with <<what, id>> appended for each ball of s
LogEach(log, what, s) ==
  IF s = <<>> THEN log
  ELSE LogEach(Append(log, <<what, Head(s).id>>), what, Tail(s))

\* the statements after the loop: resolveBallBallCollisions over the list,
\* the pushes of toSpawn, the splices of toRemove, the forced seed
EndOfStep(w) ==
  LET log1   == Append(w.log, <<"pairwise", [k \in 1..Len(w.list) |-> w.list[k].id]>>)
      pushed == w.list \o w.toSpawn
      log2   == LogEach(log1, "push", w.toSpawn)
      gone   == [k \in 1..Len(w.toRemove) |-> pushed[SortDesc(w.toRemove)[k]]]
      kept   == SpliceAll(pushed, SortDesc(w.toRemove))
      log3   == LogEach(log2, "splice", gone)
      final  == Reseed(kept, w.nextId)
      seeded == Len(final) > Len(kept)
  IN  [w EXCEPT !.list = final,
                !.nextId = IF seeded THEN w.nextId + 1 ELSE w.nextId,
                !.log = IF seeded THEN Append(log3, <<"reseed", w.nextId>>)
                        ELSE log3]

\* the walk at the head of the loop: the spawn policy has been applied
StartOfStep(list, geo, now, enabled, id) ==
  [list |-> list, geo |-> geo, now |-> now,
   flag |-> SpawnPolicy(enabled, Len(list)),
   toSpawn |-> <<>>, toRemove |-> <<>>, nextId |-> id, log |-> <<>>]

\* one call of stepSimulation as the code runs it
StepInOrder(list, geo, now, enabled, id) ==
  EndOfStep(LoopFrom(StartOfStep(list, geo, now, enabled, id), 1))

\* the same call with the loop taken phase by phase
StepInPhases(list, geo, now, enabled, id) ==
  EndOfStep(PhasedLoop(StartOfStep(list, geo, now, enabled, id)))

----------------------------------------------------------------------------
\* Animation frame and pause button

\* the clock values the model follows: the first MaxNow ms, and LateWindow
\* ms after LateTicks ticks of MaxDt
InHorizon(t) ==
  \/ t <= MaxNow
  \/ t > LateTicks * MaxDt /\ t <= LateTicks * MaxDt + LateWindow

\* mutant: the clock is advanced before isRunningRef is read
tick_ClockRunsPaused(rawDt, obs) ==
  LET dt == clamp(rawDt, 0, MaxDt)
  IN  /\ UNCHANGED <<isRunning, perfNow, probe>>
      /\ InHorizon(simNowMs + dt)
      /\ simNowMs' = simNowMs + dt
      /\ IF isRunning
         THEN /\ stepSimulation(dt, obs, simNowMs + dt)
              /\ lastFrame' = [ran |-> TRUE, dt |-> dt]
         ELSE /\ lastFrame' = [ran |-> FALSE, dt |-> dt]
              /\ UNCHANGED <<balls, spawnEnabled, gapStart, GLOBAL_ID>>

\* the requestAnimationFrame callback; rawDt is (now - lastT) in ms
tick(rawDt, obs) ==
  LET dt == clamp(rawDt, 0, MaxDt)
  IN  /\ UNCHANGED <<isRunning, perfNow, probe>>
      /\ IF isRunning
         THEN /\ InHorizon(simNowMs + dt)
              /\ simNowMs' = simNowMs + dt
              /\ stepSimulation(dt, obs, simNowMs + dt)
              /\ lastFrame' = [ran |-> TRUE, dt |-> dt]
         ELSE /\ lastFrame' = [ran |-> FALSE, dt |-> dt]
              /\ UNCHANGED <<balls, spawnEnabled, gapStart, simNowMs, GLOBAL_ID>>

\* the pause / play button
onClick ==
  /\ isRunning' = ~isRunning
  /\ UNCHANGED <<balls, spawnEnabled, gapStart, simNowMs, GLOBAL_ID, perfNow,
                 lastFrame, probe>>

----------------------------------------------------------------------------
\* Inputs of a frame

\* active balls classified ga, escaped balls classified gf
Pattern(ga, gf) ==
  [i \in 1..Len(balls) |-> IF balls[i].escapedAt = Undef THEN ga ELSE gf]

\* the first active ball classified g, the other active balls well inside
\* the ring, the escaped balls beyond it
FirstActive(g) ==
  LET act == {i \in 1..Len(balls) : balls[i].escapedAt = Undef}
  IN  [i \in 1..Len(balls) |->
         IF balls[i].escapedAt # Undef THEN GBeyond
         ELSE IF \A j \in act : i <= j THEN g ELSE GInside]

\* nothing is near the gap
Quiet == {Pattern(GInside, GBeyond)}

\* every ball in the escape zone at once, or (with few balls) one alone
Eventful ==
  {Pattern(GCoreOut, GCoreOut)}
    \cup (IF Len(balls) <= SoloMax THEN {FirstActive(GCoreOut)} ELSE {})

Observations(now, window) == IF now <= window THEN Quiet \cup Eventful ELSE Quiet

Init ==
  /\ balls = <<makeBall(1, AtCentre, initialRadius, 0)>>
  /\ GLOBAL_ID = 2
  /\ spawnEnabled = TRUE
  /\ gapStart = 0
  /\ simNowMs = 0
  /\ isRunning = TRUE
  /\ perfNow = 0
  /\ lastFrame = [ran |-> FALSE, dt |-> 0]
  /\ probe = NoProbe

\* wall-clock deltas in ms: a 30 fps frame, a long stall
RawDts == {33, 4000}

Frame ==
  \E rawDt \in RawDts :
    \E obs \in Observations(simNowMs + clamp(rawDt, 0, MaxDt), GapWindow) :
      tick(rawDt, obs)

Next == Frame

Spec == Init /\ [][Next]_vars

----------------------------------------------------------------------------
\* Frames with the pause button, and frames one millisecond apart

\* only the seed ball, while it is alone, is seen in the escape zone
SeedOnly(now, window) ==
  IF Len(balls) = 1 /\ now <= window
  THEN Quiet \cup {Pattern(GCoreOut, GCoreOut)}
  ELSE Quiet

\* wall-clock deltas in ms: two frames on one timestamp, a 30 fps frame, a
\* slow frame
RawDtsPause == {0, 33, 40}

FramePause ==
  \E rawDt \in RawDtsPause :
    \E obs \in SeedOnly(simNowMs + clamp(rawDt, 0, MaxDt), GapWindow) :
      tick(rawDt, obs)

NextPause == FramePause \/ onClick

SpecPause == Init /\ [][NextPause]_vars

\* wall-clock deltas in ms: a 1 ms frame, a 30 fps frame
RawDtsFade == {1, 33}

FrameFade ==
  \E rawDt \in RawDtsFade :
    \E obs \in SeedOnly(simNowMs + clamp(rawDt, 0, MaxDt), FadeWindow) :
      tick(rawDt, obs)

NextFade == FrameFade

SpecFade == Init /\ [][NextFade]_vars

----------------------------------------------------------------------------
\* Frames in which balls come to the rim beside the gap and go back inside

\* while the clock is at most GraceWindow the active balls are inside, on
\* the solid arc, at the rim in the near-gap band or in the escape zone, and
\* the escaped balls beyond the ring or in the gap sector; afterwards the
\* active balls are on the solid arc
GraceObservations(now) ==
  IF now <= GraceWindow
  THEN {Pattern(ga, gf) : ga \in {GInside, GWall, GNearRim, GCoreOut},
                          gf \in {GBeyond, GCoreBack}}
  ELSE {Pattern(GWall, GBeyond)}

\* wall-clock deltas in ms: 30 fps frames
RawDtsGrace == {33}

FrameGrace ==
  \E rawDt \in RawDtsGrace :
    \E obs \in GraceObservations(simNowMs + clamp(rawDt, 0, MaxDt)) :
      tick(rawDt, obs)

NextGrace == FrameGrace

SpecGrace == Init /\ [][NextGrace]_vars

----------------------------------------------------------------------------
\* Frames across a full turn of the gap (2 * pi / 0.6 rad/s = 10.47 s)

\* gapStartRef after k ticks of MaxDt from 0: k steps of
\* wrapAngle(previous + rotationSpeed * MaxDt), which add up modulo 2 * pi
GapAfter(k) == wrapAngle(k * rotationSpeed * MaxDt)

\* the state after LateTicks ticks of MaxDt in which the seed ball stayed
\* well inside the ring
InitLate ==
  /\ balls = <<makeBall(1, AtCentre, initialRadius, 0)>>
  /\ GLOBAL_ID = 2
  /\ spawnEnabled = TRUE
  /\ gapStart = GapAfter(LateTicks)
  /\ simNowMs = LateTicks * MaxDt
  /\ isRunning = TRUE
  /\ perfNow = 0
  /\ lastFrame = [ran |-> TRUE, dt |-> MaxDt]
  /\ probe = NoProbe

\* wall-clock deltas in ms: 60 fps and 30 fps frames
RawDtsGap == {16, 33}

FrameGap ==
  \E rawDt \in RawDtsGap :
    \E obs \in Quiet \cup Eventful : tick(rawDt, obs)

NextGap == FrameGap

SpecGap == InitLate /\ [][NextGap]_vars

----------------------------------------------------------------------------
\* Frames from a list that has grown one escape at a time.  When the balls
\* escape in the order they were made, ball j escapes and queues the balls
\* 2j and 2j + 1: after k - 1 escapes the balls k .. 2k - 1 are active, and
\* the ball k - 1, which escaped last, is fading or has been removed.

\* the ball with this id while it is active
CrowdBall(id) ==
  IF id = 1 THEN makeBall(1, AtCentre, initialRadius, 0)
  ELSE makeBall(id, IF id % 2 = 0 THEN AtPlusJ ELSE AtMinusJ,
                ChildRadius(makeBall(1, AtCentre, initialRadius, 0)), id \div 2)

\* the ball with this id one tick after its escape at time t
CrowdFading(id, t) ==
  [CrowdBall(id) EXCEPT !.escapedAt = t, !.opacity = fadeDur, !.spawned = TRUE,
                        !.gapOutsideTicks = EscapeTicks, !.obs = GCoreOut,
                        !.exitGraceUntil = t + ExitGrace]

\* k active balls, with the last escaped ball still in the list or not
InitCrowd ==
  \E k \in 1..MaxCrowd, f \in BOOLEAN, flag \in BOOLEAN :
    /\ balls = (IF f /\ k >= 2
                THEN <<CrowdFading(k - 1, (LateTicks - 1) * MaxDt)>> ELSE <<>>)
                 \o [i \in 1..k |-> CrowdBall(k - 1 + i)]
    /\ GLOBAL_ID = 2 * k
    /\ spawnEnabled = flag
    /\ gapStart = GapAfter(LateTicks)
    /\ simNowMs = LateTicks * MaxDt
    /\ isRunning = TRUE
    /\ perfNow = 0
    /\ lastFrame = [ran |-> TRUE, dt |-> MaxDt]
    /\ probe = NoProbe

\* every active ball is in the escape zone, or none is
FrameCrowd ==
  \E obs \in Quiet \cup {Pattern(GCoreOut, GBeyond)} : tick(MaxDt, obs)

NextCrowd == FrameCrowd

SpecCrowd == InitCrowd /\ [][NextCrowd]_vars

----------------------------------------------------------------------------
\* Frames in which balls at alternate list positions reach the gap together,
\* so that balls removed on one tick have a ball that stays between them

\* the active balls at odd list positions classified g, the other active
\* balls well inside the ring, the escaped balls beyond it
Alternate(g) ==
  [i \in 1..Len(balls) |->
     IF balls[i].escapedAt # Undef THEN GBeyond
     ELSE IF i % 2 = 1 THEN g ELSE GInside]

FrameOrder ==
  \E rawDt \in RawDts :
    \E obs \in (IF simNowMs + clamp(rawDt, 0, MaxDt) <= OrderWindow
                THEN Quiet \cup {FirstActive(GCoreOut), Alternate(GCoreOut)}
                ELSE Quiet) :
      tick(rawDt, obs)

NextOrder == FrameOrder

SpecOrder == Init /\ [][NextOrder]_vars

----------------------------------------------------------------------------
\* PhysicsVisualMinimal: an escaped ball is spliced out on the tick of its
\* escape, there is no fade and no simulation clock (now is performance.now())

InitMin ==
  /\ balls = <<makeBall(1, AtCentre, initialRadiusMin, 0)>>
  /\ GLOBAL_ID = 2
  /\ spawnEnabled = TRUE
  /\ gapStart = 0
  /\ simNowMs = 0
  /\ isRunning = TRUE
  /\ perfNow = 0
  /\ lastFrame = [ran |-> FALSE, dt |-> 0]
  /\ probe = NoProbe

\* Math.max(minBallRadius, removed.r * 0.96)
ChildRadiusMin(b) == Max(minBallRadiusMin, (b.r * ShrinkPctMin) \div 100)

\* One iteration of the loop: the ball afterwards and whether its index was
\* pushed on escapedIndices (after which the iteration stops: continue)
StepBallMin(b, g, now) ==
  LET inGap    == g.inGapCore
      inZone   == inGap /\ g.fullyOutside /\ g.vnPos
      ticks    == IF inZone THEN b.gapOutsideTicks + 1 ELSE 0
      esc      == inZone /\ ticks >= EscapeTicks
      closeToExit == inGap /\ g.atRim
      grace    == IF closeToExit THEN Max(b.exitGraceUntil, now + ExitGrace)
                  ELSE b.exitGraceUntil
      inExitGrace == grace > now
  IN  [b |-> IF esc
             THEN [b EXCEPT !.gapOutsideTicks = ticks, !.obs = g,
                            !.ringResolved = FALSE]
             ELSE [b EXCEPT !.gapOutsideTicks = ticks, !.obs = g,
                            !.exitGraceUntil = grace,
                            !.ringResolved =
                               ~inGap /\ ~inExitGrace /\ g.touching],
       escaped |-> esc]

RECURSIVE RemoveAndSpawn(_, _, _, _)
\* for (const idx of escapedIndices): splice the ball out and, if allowed,
\* push its two children; the list and the id counter afterwards
RemoveAndSpawn(list, idxs, id, flag) ==
  IF idxs = <<>> THEN [balls |-> list, id |-> id]
  ELSE LET removed == list[Head(idxs)]
           rest    == Splice(list, Head(idxs))
           newR    == ChildRadiusMin(removed)
           spawn   == flag /\ Len(rest) <= maxBalls /\ newR >= minBallRadiusMin
       IN  IF spawn
           THEN RemoveAndSpawn(
                  rest \o <<makeBall(id, AtPlusJ, newR, removed.id),
                            makeBall(id + 1, AtMinusJ, newR, removed.id)>>,
                  Tail(idxs), id + 2, flag)
           ELSE RemoveAndSpawn(rest, Tail(idxs), id, flag)

stepSimulationMin(dt, obs, now) ==
  LET n      == Len(balls)
      flag   == SpawnPolicy(spawnEnabled, n)
      res    == [i \in 1..n |-> StepBallMin(balls[i], obs[i], now)]
      moved  == [i \in 1..n |-> res[i].b]
      escapedIndices == IndicesWhere([i \in 1..n |-> res[i].escaped], 1, n)
      out    == RemoveAndSpawn(moved, SortDesc(escapedIndices), GLOBAL_ID, flag)
  IN  /\ spawnEnabled' = flag
      /\ gapStart' = wrapAngle(gapStart + rotationSpeed * dt)
      /\ balls' = out.balls
      /\ GLOBAL_ID' = out.id

\* the requestAnimationFrame callback; running is never set to false
tickMin(rawDt, obs) ==
  LET dt == clamp(rawDt, 0, MaxDt)
  IN  /\ perfNow + rawDt <= MaxPerfNow
      /\ perfNow' = perfNow + rawDt
      /\ stepSimulationMin(dt, obs, perfNow + rawDt)
      /\ lastFrame' = [ran |-> TRUE, dt |-> dt]
      /\ UNCHANGED <<simNowMs, isRunning, probe>>

\* wall-clock deltas in ms: a 60 fps frame, a slow frame
RawDtsMin == {16, 40}

FrameMin ==
  \E rawDt \in RawDtsMin :
    \E obs \in Observations(perfNow + rawDt, GapWindow) : tickMin(rawDt, obs)

NextMin == FrameMin

SpecMin == InitMin /\ [][NextMin]_vars

----------------------------------------------------------------------------
\* The oldest variant of RotatingGateBalls: a ball escapes on the first tick
\* it is in the gap sector and past the ring, now is performance.now(), and
\* the ring resolver is called on every ball that is not in the gap sector.

InitV4 ==
  /\ balls = <<makeBall(1, AtCentre, initialRadiusV4, 0)>>
  /\ GLOBAL_ID = 2
  /\ spawnEnabled = TRUE
  /\ gapStart = 0
  /\ simNowMs = 0
  /\ isRunning = TRUE
  /\ perfNow = 0
  /\ lastFrame = [ran |-> FALSE, dt |-> 0]
  /\ probe = NoProbe

\* Math.max(minBallRadius, b.r * 0.96)
ChildRadiusV4(b) == Max(minBallRadiusV4, (b.r * ShrinkPctV4) \div 100)

\* the two makeBall calls pushed on toSpawn; id is GLOBAL_ID before them
QueueChildrenV4(b, id) ==
  <<makeBall(id, AtPlusJ, ChildRadiusV4(b), b.id),
    makeBall(id + 1, AtMinusJ, ChildRadiusV4(b), b.id)>>

\* if (balls.length === 0) balls.push(makeBall(cx2, cy2, initialRadius))
ReseedV4(kept, nextId) ==
  IF Len(kept) = 0 THEN <<makeBall(nextId, AtCentre, initialRadiusV4, 0)>>
  ELSE kept

\* One iteration of the per-ball loop
StepBallV4(b, g, now, flag, len) ==
  LET esc      == g.inGap /\ g.fullyOutside /\ b.escapedAt = Undef
      escAt    == IF esc THEN now ELSE b.escapedAt
      op0      == IF esc THEN fadeDur ELSE b.opacity
      elapsed  == now - escAt
      fading   == escAt # Undef /\ FadeStarted(elapsed)
      op1      == IF fading THEN FadeOpacity(elapsed) ELSE op0
  IN  [b |-> [b EXCEPT !.escapedAt = escAt,
                       !.opacity = op1,
                       !.spawned = IF esc THEN TRUE ELSE b.spawned,
                       !.obs = g,
                       !.ringResolved = ~g.inGap],
       spawn  |-> /\ esc /\ flag /\ len <= maxBalls
                  /\ ChildRadiusV4(b) >= minBallRadiusV4,
       remove |-> fading /\ op1 <= 0]

stepSimulationV4(dt, obs, now) ==
  LET n      == Len(balls)
      flag   == SpawnPolicy(spawnEnabled, n)
      res    == [i \in 1..n |-> StepBallV4(balls[i], obs[i], now, flag, n)]
      moved  == [i \in 1..n |-> res[i].b]
      spawners == IndicesWhere([i \in 1..n |-> res[i].spawn], 1, n)
      toSpawn == Flatten([k \in 1..Len(spawners) |->
                    QueueChildrenV4(balls[spawners[k]], GLOBAL_ID + 2 * (k - 1))])
      toRemove == IndicesWhere([i \in 1..n |-> res[i].remove], 1, n)
      pushed == moved \o toSpawn
      kept   == SpliceAll(pushed, SortDesc(toRemove))
      nextId == GLOBAL_ID + Len(toSpawn)
      final  == ReseedV4(kept, nextId)
  IN  /\ spawnEnabled' = flag
      /\ gapStart' = wrapAngle(gapStart + rotationSpeed * dt)
      /\ balls' = final
      /\ GLOBAL_ID' = IF Len(final) > Len(kept) THEN nextId + 1 ELSE nextId

\* the requestAnimationFrame callback; setRunning is never called
tickV4(rawDt, obs) ==
  LET dt == clamp(rawDt, 0, MaxDt)
  IN  /\ perfNow + rawDt <= MaxNow
      /\ perfNow' = perfNow + rawDt
      /\ stepSimulationV4(dt, obs, perfNow + rawDt)
      /\ lastFrame' = [ran |-> TRUE, dt |-> dt]
      /\ UNCHANGED <<simNowMs, isRunning, probe>>

\* every active ball past the ring in the gap sector while the escaped ones
\* fall back onto the ring, or (with few balls) one active ball alone
EventfulV4 ==
  {Pattern(GCoreOut, GFallBack)}
    \cup (IF Len(balls) <= SoloMax THEN {FirstActive(GCoreOut)} ELSE {})

\* wall-clock deltas in ms: 30 fps frames
RawDtsV4 == {33}

FrameV4 ==
  \E rawDt \in RawDtsV4 :
    \E obs \in (IF perfNow + rawDt <= GapWindow THEN Quiet \cup EventfulV4
                ELSE Quiet) : tickV4(rawDt, obs)

NextV4 == FrameV4

SpecV4 == InitV4 /\ [][NextV4]_vars

\* mutant: the list is reseeded but the spawn flag is left as it is
handleReset_KeepsFlag ==
  /\ GLOBAL_ID <= MaxResetId
  /\ balls' = <<makeBall(GLOBAL_ID, AtCentre, initialRadiusV4, 0)>>
  /\ GLOBAL_ID' = GLOBAL_ID + 1
  /\ UNCHANGED <<spawnEnabled, gapStart, simNowMs, isRunning, perfNow,
                 lastFrame, probe>>

\* handleReset: one new ball at the centre, splitting enabled
handleReset ==
  /\ GLOBAL_ID <= MaxResetId
  /\ balls' = <<makeBall(GLOBAL_ID, AtCentre, initialRadiusV4, 0)>>
  /\ GLOBAL_ID' = GLOBAL_ID + 1
  /\ spawnEnabled' = TRUE
  /\ UNCHANGED <<gapStart, simNowMs, isRunning, perfNow, lastFrame, probe>>

\* frames of the first ResetWindow ms, with the reset handler run at any point
FrameReset ==
  \E rawDt \in RawDtsV4 :
    /\ perfNow + rawDt <= ResetWindow
    /\ \E obs \in Quiet \cup {Pattern(GCoreOut, GFallBack)} : tickV4(rawDt, obs)

NextReset == FrameReset \/ handleReset

SpecReset == InitV4 /\ [][NextReset]_vars

----------------------------------------------------------------------------
\* The math helpers called on their own, on floats: one call, from the state
\* after construction

\* angles within MaxOff micro-radians of a whole number of turns
WrapInputs ==
  {x \in {k * TwoPi + d : k \in (-MaxTurns)..MaxTurns, d \in (-MaxOff)..MaxOff} :
     FlRound(x) = x}

CallWrapAngle ==
  /\ probe = NoProbe
  /\ \E theta \in WrapInputs :
       probe' = [op |-> "wrapAngle", in |-> <<theta>>, out |-> wrapAngle(theta)]
  /\ UNCHANGED <<balls, spawnEnabled, gapStart, simNowMs, isRunning, GLOBAL_ID,
                 perfNow, lastFrame>>

\* 45 degrees: TwoPi / 8
Deg45 == 785398
\* 10 degrees
Deg10 == 174532

\* angles up to two turns either way in steps of 45 degrees, 10 and 350
\* degrees, and a hair below 0
ArcAngles ==
  {k * Deg45 : k \in (-2 * MaxEighths)..(2 * MaxEighths)}
    \cup {Deg10, TwoPi - Deg10, -1}

\* arc starts up to a turn either way in steps of 45 degrees
ArcStarts == {k * Deg45 : k \in (-MaxEighths)..MaxEighths}

\* arc lengths: none, 10, 45 and 90 degrees
ArcLens == {0, Deg10, Deg45, 2 * Deg45}

CallAngleInArc ==
  /\ probe = NoProbe
  /\ \E angle \in ArcAngles, arcStart \in ArcStarts, arcLen \in ArcLens :
       probe' = [op |-> "angleInArc", in |-> <<angle, arcStart, arcLen>>,
                 out |-> angleInArc(angle, arcStart, arcLen)]
  /\ UNCHANGED <<balls, spawnEnabled, gapStart, simNowMs, isRunning, GLOBAL_ID,
                 perfNow, lastFrame>>

NextAngle == CallWrapAngle \/ CallAngleInArc

SpecAngle == Init /\ [][NextAngle]_vars

----------------------------------------------------------------------------
\* Calls of the collision resolvers on their own.  A direction is a whole
\* vector with its length, so that points on it at whole multiples of the
\* length have whole coordinates.

Directions == {<<1, 0, 1>>, <<0, -1, 1>>, <<3, 4, 5>>, <<-4, 3, 5>>}

\* centerRef.current: cx, cy, R in 1/100 px.  R = max(8, circleDia / 2 - 16)
\* with circleDia >= 120 on a desktop, so 44 px is the smallest desktop ring.
RingCentres == {<<0, 0, 4400>>, <<5000, 3000, 4400>>}

\* distance of the ball's centre from the ring's centre, 1/100 px: inside,
\* on the target, between the target and R - r, on R - r, and beyond it
RingDists == {0, 3000, 3320, 3325, 3400, 3500, 4400, 5000}

\* speed along the outward normal and along the tangent, 1/1000 px/s
NormalSpeeds == {-20000, 0, 5000, 10000, 50000}

TangentSpeeds == {0, 10000}

\* an active ball of the initial radius at distance d from (cx, cy) in
\* direction u, with normal speed vn and tangential speed vt
PlacedBall(cx, cy, u, d, vn, vt) ==
  [x  |-> cx + (u[1] * d) \div u[3],
   y  |-> cy + (u[2] * d) \div u[3],
   vx |-> (vn * u[1] - vt * u[2]) \div u[3],
   vy |-> (vn * u[2] + vt * u[1]) \div u[3],
   r  |-> initialRadius \div 10,
   escapedAt |-> Undef]

CallResolveRing ==
  /\ probe = NoProbe
  /\ \E c \in RingCentres, u \in Directions, d \in RingDists,
        vn \in NormalSpeeds, vt \in TangentSpeeds :
       LET b == PlacedBall(c[1], c[2], u, d, vn, vt)
       IN  probe' = [op |-> "resolveRingCollision",
                     in |-> <<b, c[1], c[2], c[3]>>,
                     out |-> resolveRingCollision(b, c[1], c[2], c[3])]
  /\ UNCHANGED <<balls, spawnEnabled, gapStart, simNowMs, isRunning, GLOBAL_ID,
                 perfNow, lastFrame>>

\* radii of the two balls, 1/100 px
PairRadii == {initialRadius \div 10, (initialRadius \div 10) + 200}

\* distance between the two centres, 1/100 px: overlapping (by 2 px among
\* others), touching, and apart
PairDists == {10, 1000, 1800, 2000, 2200, 2400, 3000}

\* speeds of the two balls along the line from the first to the second
PairSpeedsA == {0, 20000}

PairSpeedsB == {-30000, 0, 10000, 40000}

\* escapedAt of each of the two balls: active, or escaped at 33 ms
PairEscapedAt == {Undef, MaxDt}

CallResolveBallBall ==
  /\ probe = NoProbe
  /\ \E u \in Directions, d \in PairDists, ra \in PairRadii, rb \in PairRadii,
        va \in PairSpeedsA, vb \in PairSpeedsB, vt \in TangentSpeeds,
        ea \in PairEscapedAt, eb \in PairEscapedAt :
       LET a == [PlacedBall(5000, 3000, u, 0, va, 0)
                   EXCEPT !.r = ra, !.escapedAt = ea]
           b == [PlacedBall(5000, 3000, u, d, vb, vt)
                   EXCEPT !.r = rb, !.escapedAt = eb]
       IN  probe' = [op |-> "resolveBallBallCollisions",
                     in |-> <<(<<a, b>>)>>,
                     out |-> resolveBallBallCollisions(<<a, b>>)]
  /\ UNCHANGED <<balls, spawnEnabled, gapStart, simNowMs, isRunning, GLOBAL_ID,
                 perfNow, lastFrame>>

RECURSIVE Passes(_, _)
\* the list after k calls of resolveBallBallCollisions with nothing between
Passes(s, k) == IF k = 0 THEN s ELSE Passes(resolveBallBallCollisions(s), k - 1)

\* distance between the two centres, 1/100 px, the same centre included
PassDists == {0} \cup PairDists

CallPasses ==
  /\ probe = NoProbe
  /\ \E u \in Directions, d \in PassDists, ra \in PairRadii, rb \in PairRadii,
        vb \in PairSpeedsB, k \in 1..MaxPasses :
       LET a == [PlacedBall(5000, 3000, u, 0, 0, 0) EXCEPT !.r = ra]
           b == [PlacedBall(5000, 3000, u, d, vb, 0) EXCEPT !.r = rb]
       IN  probe' = [op |-> "passes", in |-> <<(<<a, b>>), k>>,
                     out |-> Passes(<<a, b>>, k)]
  /\ UNCHANGED <<balls, spawnEnabled, gapStart, simNowMs, isRunning, GLOBAL_ID,
                 perfNow, lastFrame>>

NextContact == CallResolveRing \/ CallResolveBallBall \/ CallPasses

SpecContact == Init /\ [][NextContact]_vars

----------------------------------------------------------------------------

\* One call of stepSimulation followed statement by statement, on lists of
\* children of the first balls, 60 ticks of MaxDt after construction.

WalkNow == 60 * MaxDt

\* what a ball of the list has been through: nothing yet; one tick in the
\* escape zone; escaped 1400 ms ago less one tick of fading still to come
WalkKinds == {"fresh", "poised", "fading"}

WalkGeoms == {GInside, GWall, GNearRim, GCoreOut}

WalkBall(i, kind) ==
  LET b == makeBall(3 + i, IF i % 2 = 1 THEN AtPlusJ ELSE AtMinusJ,
                    ChildRadius(makeBall(1, AtCentre, initialRadius, 0)),
                    1 + (i + 1) \div 2)
  IN  CASE kind = "fresh"  -> b
        [] kind = "poised" -> [b EXCEPT !.gapOutsideTicks = 1, !.obs = GCoreOut]
        [] OTHER -> [b EXCEPT !.escapedAt = WalkNow - (FadeDelay + fadeDur),
                              !.opacity = FadeOpacity(FadeDelay + fadeDur - MaxDt),
                              !.spawned = TRUE, !.obs = GBeyond]

CallStepInOrder ==
  /\ probe = NoProbe
  /\ \E n \in 1..MaxWalk :
       \E kinds \in [1..n -> WalkKinds], geo \in [1..n -> WalkGeoms],
          enabled \in BOOLEAN :
         LET list == [i \in 1..n |-> WalkBall(i, kinds[i])]
         IN  probe' = [op |-> "stepSimulation",
                       in |-> <<list, geo, WalkNow, enabled, 4 + MaxWalk>>,
                       out |-> StepInOrder(list, geo, WalkNow, enabled, 4 + MaxWalk)]
  /\ UNCHANGED <<balls, spawnEnabled, gapStart, simNowMs, isRunning, GLOBAL_ID,
                 perfNow, lastFrame>>

\* The positions of the two children of one escape, in 1/1000000 px; a draw
\* of Math.random() is in 1/1000000.

\* (Math.random() - 0.5) * 0.5
Jitter(draw) == (draw - 500000) \div 2

\* the x, y arguments of the two makeBall calls: centre + j and centre - j,
\* each sum rounded as a float
ChildPositions(cx, cy, drawX, drawY) ==
  LET jx == Jitter(drawX)
      jy == Jitter(drawY)
  IN  <<[x |-> FlRound(cx + jx), y |-> FlRound(cy + jy)],
        [x |-> FlRound(cx - jx), y |-> FlRound(cy - jy)]>>

\* centerRef.current: the middle of an 800 x 600 px and of a 1024 x 768 px
\* canvas
SpawnCentres == {<<400000000, 300000000>>, <<512000000, 384000000>>}

\* draws of Math.random(), which returns a float in [0, 1): the ends, the
\* middle, and values near each
Draws == {0, 250000, 499900, 500000, 500100, 750000, 999998}

CallChildPositions ==
  /\ probe = NoProbe
  /\ \E c \in SpawnCentres, drawX \in Draws, drawY \in Draws :
       probe' = [op |-> "spawn", in |-> <<c[1], c[2], drawX, drawY>>,
                 out |-> ChildPositions(c[1], c[2], drawX, drawY)]
  /\ UNCHANGED <<balls, spawnEnabled, gapStart, simNowMs, isRunning, GLOBAL_ID,
                 perfNow, lastFrame>>

NextWalk == CallStepInOrder \/ CallChildPositions

SpecWalk == Init /\ [][NextWalk]_vars

----------------------------------------------------------------------------

\* Vocabulary of the properties

IdsOf(s) == {s[i].id : i \in 1..Len(s)}

Escaped(b) == b.escapedAt # Undef

\* a step taken by a running animation frame
TickStep == isRunning /\ isRunning' = isRunning

\* the balls of the list after the step that the step created
NewBalls == {j \in 1..Len(balls') : balls'[j].id >= GLOBAL_ID}

\* the positions (i before, j after the step) of the balls that are in both lists
Survivors ==
  {p \in (1..Len(balls)) \X (1..Len(balls')) : balls'[p[2]].id = balls[p[1]].id}

\* the surviving balls that the step classified as escaped
EscapedNow ==
  {p \in Survivors : ~Escaped(balls[p[1]]) /\ Escaped(balls'[p[2]])}

ChildrenOf(s, id) == {i \in 1..Len(s) : s[i].parent = id}

----------------------------------------------------------------------------
\* C1: the ball list is never empty after a tick, whatever the spawn flag;
\* a tick whose removals take every ball away leaves exactly one new seed
\* ball of radius initialRadius made at the boundary centre.
C1_PopulationFloor ==
  /\ [](Len(balls) >= 1)
  /\ [][(TickStep /\ IdsOf(balls') \cap IdsOf(balls) = {}) =>
          /\ balls' = <<makeBall(GLOBAL_ID, AtCentre, initialRadius, 0)>>
          /\ GLOBAL_ID' = GLOBAL_ID + 1]_vars

\* the list was emptied and reseeded on a tick that left splitting disabled
C1_Witness ==
  /\ lastFrame.ran
  /\ Len(balls) = 1
  /\ balls[1].id > 1 /\ balls[1].at = AtCentre /\ balls[1].r = initialRadius
  /\ ~spawnEnabled

\* C2: in PhysicsVisualMinimal the ball list is never empty after a tick,
\* also after a tick in which every remaining ball escapes while splitting
\* is disabled.
C2_MinimalNeverEmpty == Len(balls) >= 1

\* C3: every escape creates zero or exactly two balls, never one, and the
\* population (active plus fading) never exceeds maxBalls.
C3_ZeroOrTwoChildren ==
  /\ [](Len(balls) <= maxBalls)
  /\ [][TickStep =>
          /\ \A p \in EscapedNow :
               Cardinality({j \in NewBalls :
                              balls'[j].parent = balls[p[1]].id}) \in {0, 2}
          /\ \A j \in NewBalls :
               balls'[j].parent # 0 =>
                 \E p \in EscapedNow : balls[p[1]].id = balls'[j].parent]_vars

\* one escaped ball has its two children in the list, another has none
C3_Witness ==
  /\ \E i \in 1..Len(balls) :
       Escaped(balls[i]) /\ Cardinality(ChildrenOf(balls, balls[i].id)) = 2
  /\ \E i \in 1..Len(balls) :
       /\ Escaped(balls[i]) /\ balls[i].escapedAt = simNowMs
       /\ ChildrenOf(balls, balls[i].id) = {}

\* C4: a ball becomes escaped only on a tick on which the escape predicate
\* holds and on whose predecessor tick it held too; a tick on which the
\* predicate fails leaves gapOutsideTicks at 0.
C4_EscapeNeedsTwoTicks ==
  /\ [](\A i \in 1..Len(balls) :
          ~EscapePredicate(balls[i].obs) => balls[i].gapOutsideTicks = 0)
  /\ [][TickStep =>
          \A p \in EscapedNow :
            /\ EscapePredicate(balls'[p[2]].obs)
            /\ EscapePredicate(balls[p[1]].obs)
            /\ balls[p[1]].gapOutsideTicks >= 1
            /\ balls'[p[2]].escapedAt = simNowMs']_vars

\* an active ball has been in the escape zone for one tick and has not
\* escaped, next to a ball that has
C4_Witness ==
  /\ \E i \in 1..Len(balls) :
       /\ ~Escaped(balls[i])
       /\ balls[i].gapOutsideTicks = 1
       /\ EscapePredicate(balls[i].obs)
  /\ \E i \in 1..Len(balls) : Escaped(balls[i])

\* C4, for PhysicsVisualMinimal, where escaping is leaving the list: a ball
\* leaves only on a tick before which it had been in the escape zone for one
\* tick, and a ball that stays was outside the zone (count 0) or in it for
\* the first tick (count 1).
C4_MinimalEscapeNeedsTwoTicks ==
  /\ [](\A i \in 1..Len(balls) :
          /\ balls[i].gapOutsideTicks \in {0, 1}
          /\ EscapePredicate(balls[i].obs) <=> balls[i].gapOutsideTicks = 1)
  /\ [][\A i \in 1..Len(balls) :
          balls[i].id \notin IdsOf(balls') =>
            EscapePredicate(balls[i].obs) /\ balls[i].gapOutsideTicks = 1]_vars

\* C5: escapedAt, once set, is never cleared or overwritten; an escaped ball
\* queues no further children; a removed ball never returns; so each ball
\* has at most the two children of its one escape.
C5_EscapeOnce ==
  /\ [](\A i \in 1..Len(balls) :
          Cardinality(ChildrenOf(balls, balls[i].id)) <= 2)
  /\ [][/\ \A p \in Survivors :
             Escaped(balls[p[1]]) =>
               /\ balls'[p[2]].escapedAt = balls[p[1]].escapedAt
               /\ \A j \in NewBalls : balls'[j].parent # balls[p[1]].id
        /\ \A j \in 1..Len(balls') :
             balls'[j].id \in IdsOf(balls) \/ balls'[j].id >= GLOBAL_ID
        /\ \A p \in EscapedNow : balls'[p[2]].spawned]_vars

\* a ball that escaped on an earlier tick is still in the escape zone
C5_Witness ==
  /\ lastFrame.ran
  /\ \E i \in 1..Len(balls) :
       /\ Escaped(balls[i])
       /\ balls[i].escapedAt < simNowMs
       /\ EscapePredicate(balls[i].obs)

\* C6: the ring resolver is called on a ball only if the ball is active, is
\* not in the gap core and is not inside its exit grace window.
C6_RingOnlyForActive ==
  \A i \in 1..Len(balls) :
    balls[i].ringResolved =>
      /\ ~Escaped(balls[i])
      /\ ~balls[i].obs.inGapCore
      /\ balls[i].exitGraceUntil <= simNowMs

\* C6, second half: a ball whose escapedAt is set is never snapped or
\* reflected by the ring resolver.
C6_EscapedNeverMoved ==
  \A i \in 1..Len(balls) :
    Escaped(balls[i]) => ~(balls[i].ringResolved /\ balls[i].obs.ringHit)

\* C7: with elapsed = now - escapedAt at a tick, an escaped ball has opacity
\* 1 while elapsed <= 1000 and max(0, 1 - (elapsed - 1000) / 400) afterwards
\* (1 at 999 ms, 0.5 at 1200 ms); the tick removes it exactly when
\* elapsed >= 1400.  Opacity is in 1/400.
C7_FadeSchedule ==
  /\ [](\A i \in 1..Len(balls) :
          Escaped(balls[i]) =>
            LET elapsed == simNowMs - balls[i].escapedAt
            IN  /\ elapsed <= 1000 => balls[i].opacity = 400
                /\ elapsed > 1000 =>
                     balls[i].opacity = Max(0, 400 - (elapsed - 1000))
                /\ elapsed = 999 => balls[i].opacity = 400
                /\ elapsed = 1200 => balls[i].opacity = 200)
  /\ [][TickStep =>
          \A i \in 1..Len(balls) :
            Escaped(balls[i]) =>
              (balls[i].id \notin IdsOf(balls')
                 <=> simNowMs' - balls[i].escapedAt >= 1400)]_vars

\* an escaped ball is seen 1200 ms after its escape, at half opacity
C7_Witness ==
  \E i \in 1..Len(balls) :
    /\ Escaped(balls[i])
    /\ simNowMs - balls[i].escapedAt = 1200
    /\ balls[i].opacity = 200

\* C8: after a tick no ball of the list has opacity 0, that is, no escaped
\* ball has been escaped for 1400 ms or more.
C8_NoFadedBallKept ==
  \A i \in 1..Len(balls) :
    /\ balls[i].opacity = Undef \/ balls[i].opacity > 0
    /\ Escaped(balls[i]) => simNowMs - balls[i].escapedAt < 1400

\* several balls were removed on the latest tick while others stayed
C8_Witness ==
  /\ lastFrame.ran
  /\ Len(balls) >= 2
  /\ Cardinality({b \in 1..Len(balls) :
                    /\ balls[b].parent # 0
                    /\ balls[b].parent \notin IdsOf(balls)}) >= 4
  /\ \E i \in 1..Len(balls) : Escaped(balls[i]) /\ balls[i].opacity < fadeDur

\* C9: the spawn flag goes from true to false only on a tick that starts
\* with 20 or more balls, from false to true only on a tick that starts with
\* at most one ball, and is left alone by a tick that starts with 2 to 19.
C9_SpawnHysteresis ==
  [][/\ (spawnEnabled /\ ~spawnEnabled') => (TickStep /\ Len(balls) >= 20)
     /\ (~spawnEnabled /\ spawnEnabled') => (TickStep /\ Len(balls) <= 1)
     /\ (Len(balls) >= 2 /\ Len(balls) <= 19) => spawnEnabled' = spawnEnabled
    ]_vars

\* the flag is on again after the population fell from 20 or more to one
C9_Witness ==
  /\ spawnEnabled
  /\ Len(balls) = 1
  /\ balls[1].id > SpawnOffAt

\* C10: a frame taken while paused changes neither the simulation clock nor
\* the ball list, the gap angle or the spawn flag, so now - escapedAt of a
\* fading ball does not grow; the clock changes only in a running frame, by
\* the frame's dt clamped to 0..33 ms; the pause button changes none of them.
C10_PausedFrameChangesNothing ==
  /\ [][(~isRunning /\ ~isRunning') =>
          /\ UNCHANGED <<simNowMs, balls, gapStart, spawnEnabled, GLOBAL_ID>>
          /\ \A i \in 1..Len(balls) :
               Escaped(balls[i]) =>
                 simNowMs' - balls'[i].escapedAt = simNowMs - balls[i].escapedAt
       ]_vars
  /\ [][simNowMs' # simNowMs =>
          /\ isRunning /\ isRunning'
          /\ lastFrame'.ran
          /\ simNowMs' - simNowMs = lastFrame'.dt
          /\ simNowMs' - simNowMs \in 0..33]_vars
  /\ [][isRunning' # isRunning =>
          UNCHANGED <<simNowMs, balls, gapStart, spawnEnabled>>]_vars

\* a frame was skipped while paused, with a ball part-way through its fade
C10_Witness ==
  /\ ~isRunning
  /\ ~lastFrame.ran
  /\ \E i \in 1..Len(balls) :
       /\ Escaped(balls[i])
       /\ balls[i].opacity > 0 /\ balls[i].opacity < fadeDur

C12_RemovalKeepsOrder ==
  [][TickStep =>
       LET Stays(b) == ~(Escaped(b) /\ simNowMs' - b.escapedAt >= 1400)
           kept == SelectSeq(balls, Stays)
           n    == Len(kept)
       IN  /\ Len(balls') >= n
           /\ \A k \in 1..n : balls'[k].id = kept[k].id
           /\ \A k \in (n + 1)..Len(balls') : balls'[k].id >= GLOBAL_ID
           /\ \A k \in 1..Len(balls') : Stays(balls'[k])]_vars

\* two balls that escaped on one tick (their children have four consecutive
\* ids) are gone, and a ball that stood between them is still in the list,
\* ahead of their children
C12_Witness ==
  /\ lastFrame.ran
  /\ \E j, k \in 1..Len(balls) :
       /\ balls[k].id = balls[j].id + 2
       /\ balls[j].parent # 0 /\ balls[j].parent \notin IdsOf(balls)
       /\ balls[k].parent # 0 /\ balls[k].parent \notin IdsOf(balls)
       /\ balls[j].parent + 2 = balls[k].parent
       /\ \E m \in 1..Len(balls) :
            /\ balls[m].id = balls[j].parent + 1
            /\ m < j

\* C13: every ball gets an id above the id of every ball made before it: the
\* ids in the list are distinct and below the counter, the counter never
\* goes back, and the balls a step adds have ids at or above the counter's
\* value before the step, ascending in the order they were made, so the id
\* of a removed ball is never given again.
C13_IdsNeverReused ==
  /\ [](\A i, j \in 1..Len(balls) :
          /\ balls[i].id < GLOBAL_ID
          /\ i # j => balls[i].id # balls[j].id)
  /\ [][/\ GLOBAL_ID' >= GLOBAL_ID
        /\ \A j \in 1..Len(balls') :
             balls'[j].id \notin IdsOf(balls) =>
               /\ balls'[j].id >= GLOBAL_ID
               /\ balls'[j].id < GLOBAL_ID'
               /\ \A k \in 1..(j - 1) : balls'[k].id < balls'[j].id
        /\ GLOBAL_ID' - GLOBAL_ID =
             Cardinality({j \in 1..Len(balls') :
                            balls'[j].id \notin IdsOf(balls)})]_vars

\* the seed and other balls have been removed, children and a forced seed
\* have been made since, and the counter is past every id given so far
C13_Witness ==
  /\ 1 \notin IdsOf(balls)
  /\ \E i \in 1..Len(balls) : balls[i].parent = 0 /\ balls[i].id > 1
  /\ GLOBAL_ID > SpawnOffAt

\* C14: after handleReset, from any reachable state, the list holds exactly
\* one ball, active, of radius initialRadius, at the boundary centre, and
\* splitting is enabled; the gap angle is left as it was.  (A step that
\* leaves performance.now() alone is a run of the handler.)
C14_ResetReseeds ==
  [][perfNow' = perfNow =>
       /\ Len(balls') = 1
       /\ balls'[1].escapedAt = Undef
       /\ balls'[1].r = 12000
       /\ balls'[1].at = AtCentre
       /\ spawnEnabled'
       /\ gapStart' = gapStart]_vars

\* the handler has run in a state with 20 or more balls, escaped ones among
\* them, splitting disabled and the gap turned
C14_Witness ==
  /\ Len(balls) = 1
  /\ balls[1].id > SpawnOffAt
  /\ balls[1].escapedAt = Undef
  /\ spawnEnabled
  /\ gapStart > 0

\* C15: wrapAngle(theta) returns w with 0 <= w < 2*pi, congruent to theta
\* modulo 2*pi (to within the rounding of one addition), for negative angles
\* and for angles many turns away from 0.
C15_WrapAngleRange ==
  probe.op = "wrapAngle" =>
    LET theta == probe.in[1]
        w     == probe.out
        exact == theta % TwoPi
    IN  /\ 0 <= w
        /\ w < TwoPi
        /\ (w - exact) \in -2..2 \/ (w + TwoPi - exact) \in -2..2

\* C16: angleInArc(angle, arcStart, arcLen) is true exactly when the wrapped
\* angle lies on the closed arc from wrap(arcStart) on for arcLen, that is,
\* when the angle is at most arcLen ahead of the arc's start, going round;
\* for arcs that do not wrap, arcs that wrap past 2*pi, an arc that ends at
\* 2*pi and an arc of length 0.
C16_AngleInArc ==
  probe.op = "angleInArc" =>
    LET a   == probe.in[1] % TwoPi
        s   == probe.in[2] % TwoPi
        len == probe.in[3]
    IN  probe.out = (((a - s) % TwoPi) <= len)

\* 10 degrees is found inside the arc of 90 degrees that starts at 315
C16_Witness ==
  /\ probe.op = "angleInArc"
  /\ probe.in = <<Deg10, 7 * Deg45, 2 * Deg45>>
  /\ probe.out = TRUE

\* the squared distance of a ball from a point
Dist2(b, cx, cy) == (b.x - cx) * (b.x - cx) + (b.y - cy) * (b.y - cy)

\* the probe is a call of the ring resolver
RingCall == probe.op = "resolveRingCollision"

NormalV(b, p, cx, cy) ==
  ((b.vx * (p.x - cx)) + (b.vy * (p.y - cy))) \div Hypot(p.x - cx, p.y - cy)

\* the component of b's velocity along the tangent at the point p
TangentV(b, p, cx, cy) ==
  ((b.vy * (p.x - cx)) - (b.vx * (p.y - cy))) \div Hypot(p.x - cx, p.y - cy)

\* the ring resolver was called for a ball beyond R - r - eps
ReachedRing ==
  /\ RingCall
  /\ LET b0 == probe.in[1]
         t  == probe.in[4] - b0.r - EpsRing
     IN  Dist2(b0, probe.in[2], probe.in[3]) > t * t

\* the normal component has been reflected with restitution e and scaled by
\* 0.999, and the tangential component only scaled by 0.999
Reflected ==
  LET b0 == probe.in[1]
      cx == probe.in[2]
      cy == probe.in[3]
      e  == Min(100, restitutionWall)
      vn == NormalV(b0, b0, cx, cy)
  IN  /\ NormalV(probe.out, b0, cx, cy) = -((((e * vn) \div 100) * Damp) \div 1000)
      /\ NormalV(probe.out, b0, cx, cy) <= 0
      /\ TangentV(probe.out, b0, cx, cy)
           = (TangentV(b0, b0, cx, cy) * Damp) \div 1000

\* both components have only been scaled by 0.999
OnlyDamped ==
  LET b0 == probe.in[1]
      cx == probe.in[2]
      cy == probe.in[3]
  IN  /\ NormalV(probe.out, b0, cx, cy) = (NormalV(b0, b0, cx, cy) * Damp) \div 1000
      /\ TangentV(probe.out, b0, cx, cy)
           = (TangentV(b0, b0, cx, cy) * Damp) \div 1000

\* C18 as stated: a ball that has reached the solid boundary while moving
\* outward, at whatever speed, leaves the ring resolver with its normal
\* velocity reflected to -e*vn*0.999 <= 0 and its tangential velocity scaled
\* by 0.999.
C18_OutwardAlwaysReflected ==
  (ReachedRing /\ NormalV(probe.in[1], probe.in[1], probe.in[2], probe.in[3]) > 0)
    => Reflected

\* C18: a ball that has reached the solid boundary while moving outward
\* faster than 5 px/s leaves the ring resolver with its normal velocity
\* reflected to -e*vn*0.999 <= 0 and its tangential velocity scaled by 0.999;
\* at an outward speed of at most 5 px/s both components are only scaled by
\* 0.999.
C18_ReflectedAboveThreshold ==
  ReachedRing =>
    LET vn == NormalV(probe.in[1], probe.in[1], probe.in[2], probe.in[3])
    IN  /\ vn > BounceMin => Reflected
        /\ (vn > 0 /\ vn <= BounceMin) => OnlyDamped

\* a ball off the axes, moving outward and sideways, has been reflected
C18_Witness ==
  /\ ReachedRing
  /\ LET b0 == probe.in[1]
         cx == probe.in[2]
         cy == probe.in[3]
     IN  /\ b0.x # cx /\ b0.y # cy
         /\ NormalV(b0, b0, cx, cy) > BounceMin
         /\ TangentV(b0, b0, cx, cy) # 0
         /\ NormalV(probe.out, b0, cx, cy) < 0

\* the probe is a call of the pairwise resolver on two overlapping balls
OverlappingPairCall ==
  /\ probe.op = "resolveBallBallCollisions"
  /\ LET a == probe.in[1][1]
         b == probe.in[1][2]
     IN  Dist2(b, a.x, a.y) < (a.r + b.r) * (a.r + b.r)

\* ball q is ball p moved by half of `overlap` along the direction (dx, dy)
\* taken with the sign sgn: the displacement is parallel to the direction,
\* points the way of sgn, and has length overlap / 2
MovedHalf(p, q, dx, dy, sgn, overlap) ==
  LET mx == q.x - p.x
      my == q.y - p.y
  IN  /\ mx * dy = my * dx
      /\ sgn * (mx * dx + my * dy) > 0
      /\ 4 * (mx * mx + my * my) = overlap * overlap

C19_WitnessAtRest ==
  /\ OverlappingPairCall
  /\ LET a  == probe.in[1][1]
         b  == probe.in[1][2]
         a1 == probe.out[1]
         b1 == probe.out[2]
     IN  /\ a.vx = 0 /\ a.vy = 0 /\ b.vx = 0 /\ b.vy = 0
         /\ Dist2(b, a.x, a.y) = (a.r + b.r - 200) * (a.r + b.r - 200)
         /\ a1.x # a.x
         /\ a1.vx = 0 /\ a1.vy = 0 /\ b1.vx = 0 /\ b1.vy = 0

\* C20: on every running tick the gap start angle becomes
\* wrapAngle(previous + rotationSpeed * dt) and stays in [0, 2*pi); it is a
\* function of the previous angle and dt alone, whatever the list of balls,
\* the spawn flag and the escapes of the tick are: it is the previous angle
\* advanced by rotationSpeed * dt and taken modulo 2*pi.
C20_GapRotation ==
  [][TickStep =>
       /\ gapStart' = wrapAngle(gapStart + rotationSpeed * lastFrame'.dt)
       /\ gapStart' = (gapStart + rotationSpeed * lastFrame'.dt) % TwoPi
       /\ gapStart' >= 0 /\ gapStart' < TwoPi]_vars

\* the gap has wrapped past 2*pi on a tick in which a ball escaped and two
\* children were added to the list
C20_Witness ==
  /\ lastFrame.ran
  /\ gapStart < rotationSpeed * lastFrame.dt
  /\ simNowMs > LateTicks * MaxDt
  /\ \E i \in 1..Len(balls) : balls[i].escapedAt = simNowMs
  /\ Len(balls) > 2

\* the probe is a call of the pairwise resolver
PairCall == probe.op = "resolveBallBallCollisions"

\* position and velocity of a ball
Motion(b) == <<b.x, b.y, b.vx, b.vy>>

\* C21: a ball whose escapedAt is set is neither moved nor given an impulse
\* by resolveBallBallCollisions, and neither moves nor gives an impulse to
\* an active ball: in a pair with an escaped ball nothing changes.
C21_PairwiseOnlyActive ==
  PairCall =>
    LET a  == probe.in[1][1]
        b  == probe.in[1][2]
        a1 == probe.out[1]
        b1 == probe.out[2]
    IN  (a.escapedAt # Undef \/ b.escapedAt # Undef)
          => (Motion(a1) = Motion(a) /\ Motion(b1) = Motion(b))

\* the probe is a call of stepSimulation followed statement by statement
WalkCall == probe.op = "stepSimulation"

\* the positions in the log of the events <<what, id>>
EventsOf(log, what, id) ==
  {k \in 1..Len(log) : log[k][1] = what /\ log[k][2] = id}

\* the positions in the log of the events of one kind
EventsOfKind(log, what) == {k \in 1..Len(log) : log[k][1] = what}

LoopSteps == {"integrate", "classify", "boundary", "fade"}

\* C22: in one tick the pairwise resolver runs exactly once, over the balls
\* the tick started with, after each of them has been integrated, classified
\* and boundary-resolved, and before any queued spawn or removal is applied;
\* the children spawned in the tick are neither integrated, classified,
\* boundary-resolved nor collided in it; and the loop that takes the steps
\* ball by ball leaves the same list, queues and id counter as taking each
\* step over the whole list before the next.
C22_PhaseOrder ==
  WalkCall =>
    LET list0 == probe.in[1]
        log   == probe.out.log
        pw    == EventsOfKind(log, "pairwise")
        ids0  == [k \in 1..Len(list0) |-> list0[k].id]
        ph    == StepInPhases(probe.in[1], probe.in[2], probe.in[3],
                              probe.in[4], probe.in[5])
    IN  /\ Cardinality(pw) = 1
        /\ \A p \in pw :
             /\ log[p][2] = ids0
             /\ \A k \in 1..Len(list0), what \in LoopSteps :
                  \E e \in EventsOf(log, what, ids0[k]) :
                    /\ e < p
                    /\ EventsOf(log, what, ids0[k]) = {e}
             /\ \A e \in EventsOfKind(log, "push") \cup EventsOfKind(log, "splice")
                          \cup EventsOfKind(log, "reseed") : e > p
        /\ \A e \in 1..Len(log) :
             log[e][1] \in LoopSteps => log[e][2] < probe.in[5]
        /\ [probe.out EXCEPT !.log = <<>>] = [ph EXCEPT !.log = <<>>]

\* a tick in which one ball escaped and queued two children, which are in
\* the list afterwards, while another ball of the list was removed
C22_Witness ==
  /\ WalkCall
  /\ Len(probe.in[1]) = MaxWalk
  /\ EventsOfKind(probe.out.log, "push") # {}
  /\ EventsOfKind(probe.out.log, "splice") # {}
  /\ \E k \in 1..Len(probe.out.list) : probe.out.list[k].id >= probe.in[5]
  /\ \E k \in 1..Len(probe.out.list) : probe.out.list[k].ringResolved

\* the loop leaves each ball as StepBall does, and queues what it says
WalkAgreesWithStepBall ==
  WalkCall =>
    LET list0 == probe.in[1]
        n     == Len(list0)
        w     == LoopFrom(StartOfStep(probe.in[1], probe.in[2], probe.in[3],
                                      probe.in[4], probe.in[5]), 1)
        res   == [i \in 1..n |-> StepBall(list0[i], probe.in[2][i], probe.in[3],
                                          w.flag, n)]
    IN  /\ w.list = [i \in 1..n |-> res[i].b]
        /\ w.toRemove = IndicesWhere([i \in 1..n |-> res[i].remove], 1, n)
        /\ Len(w.toSpawn) = 2 * Len(IndicesWhere([i \in 1..n |-> res[i].spawn], 1, n))

\* the probe is the placing of the two children of one escape
SpawnCall == probe.op = "spawn"

\* C23: the two children of one escape are placed point-symmetrically about
\* the centre of the ring, and for every pair of draws at two different
\* positions.
C23_ChildrenApart ==
  SpawnCall =>
    LET cx == probe.in[1]
        cy == probe.in[2]
        p  == probe.out[1]
        q  == probe.out[2]
    IN  /\ (p.x - cx) + (q.x - cx) \in -Ulp(cx)..Ulp(cx)
        /\ (p.y - cy) + (q.y - cy) \in -Ulp(cy)..Ulp(cy)
        /\ p # q

\* the ring resolver is held off for ball b by the grace window alone
HeldByGrace(b) ==
  /\ b.escapedAt = Undef
  /\ ~(b.obs.inGapCore \/ (b.obs.inGapNear /\ b.obs.atRim))
  /\ ~b.ringResolved

\* C24: a ball's exitGraceUntil never decreases, is never more than 180 ms
\* ahead of the simulation clock, and is raised only by a running tick on
\* which the ball is in the near-gap band at the rim, to 180 ms after that
\* tick; the ring resolver is held off by the grace window only on ticks
\* before exitGraceUntil.
C24_ExitGrace ==
  [][\A i \in 1..Len(balls') :
       LET b1 == balls'[i]
       IN  /\ b1.exitGraceUntil <= simNowMs' + ExitGrace
           /\ b1.id \notin IdsOf(balls) => b1.exitGraceUntil = 0
           /\ \A j \in 1..Len(balls) :
                balls[j].id = b1.id =>
                  /\ b1.exitGraceUntil >= balls[j].exitGraceUntil
                  /\ b1.exitGraceUntil > balls[j].exitGraceUntil
                       => /\ TickStep
                          /\ b1.obs.inGapNear /\ b1.obs.atRim
                          /\ b1.exitGraceUntil = simNowMs' + ExitGrace
           /\ (TickStep /\ b1.id \in IdsOf(balls) /\ HeldByGrace(b1))
                => simNowMs' < b1.exitGraceUntil]_vars

\* an active ball that was at the rim beside the gap is back on the solid
\* arc within its grace window, and the ring resolver was not called on it
C24_Witness ==
  \E i \in 1..Len(balls) :
    /\ balls[i].obs = GWall
    /\ HeldByGrace(balls[i])
    /\ balls[i].exitGraceUntil > simNowMs
    /\ balls[i].exitGraceUntil < simNowMs + ExitGrace

\* the grace window has run out and the ring resolver is called again
C24_WitnessExpired ==
  \E i \in 1..Len(balls) :
    /\ balls[i].obs = GWall
    /\ balls[i].ringResolved
    /\ balls[i].exitGraceUntil > 0
    /\ balls[i].exitGraceUntil <= simNowMs

\* the probe is a run of pairwise passes over two overlapping balls
OverlappingPasses ==
  /\ probe.op = "passes"
  /\ LET a == probe.in[1][1]
         b == probe.in[1][2]
     IN  Dist2(b, a.x, a.y) < (a.r + b.r) * (a.r + b.r)

\* C25: for any two overlapping balls, two with the same centre included,
\* one pairwise pass makes the overlap strictly smaller, and after one or
\* more passes the centres are no closer than r_a + r_b.
C25_PassesSeparate ==
  OverlappingPasses =>
    LET a  == probe.in[1][1]
        b  == probe.in[1][2]
        a1 == probe.out[1]
        b1 == probe.out[2]
    IN  /\ probe.in[2] = 1 => Dist2(b1, a1.x, a1.y) > Dist2(b, a.x, a.y)
        /\ Dist2(b1, a1.x, a1.y) >= (a.r + b.r) * (a.r + b.r)

\* as C25, for two overlapping balls whose centres differ
C25_DistinctCentresSeparate ==
  (OverlappingPasses /\ Dist2(probe.in[1][2], probe.in[1][1].x, probe.in[1][1].y) > 0)
    => LET a  == probe.in[1][1]
           b  == probe.in[1][2]
           a1 == probe.out[1]
           b1 == probe.out[2]
       IN  /\ probe.in[2] = 1 => Dist2(b1, a1.x, a1.y) > Dist2(b, a.x, a.y)
           /\ Dist2(b1, a1.x, a1.y) >= (a.r + b.r) * (a.r + b.r)

\* two balls with the same centre are where they were after every pass
C25_CoincidentStay ==
  (OverlappingPasses /\ Dist2(probe.in[1][2], probe.in[1][1].x, probe.in[1][1].y) = 0)
    => probe.out = probe.in[1]

\* C26: the population (active plus fading) never exceeds 57 = 19 + 2 * 19
\* after any tick: balls are spawned only on ticks that start with at most
\* 19 balls, and at most one pair for each ball present.
C26_PopulationCeiling ==
  /\ [](Len(balls) <= 57)
  /\ [][TickStep =>
          LET spawned == {j \in NewBalls : balls'[j].parent # 0}
          IN  /\ spawned # {} => Len(balls) <= 19
              /\ Cardinality(spawned) <= 2 * Len(balls)]_vars

\* a tick that started with 19 balls, 18 of them active, has left 55
C26_Witness ==
  /\ Len(balls) = 19 + 2 * 18
  /\ Cardinality({i \in 1..Len(balls) : balls[i].escapedAt = simNowMs}) = 18
  /\ Cardinality({i \in 1..Len(balls) : balls[i].escapedAt = Undef}) = 36

\* C27: on a tick that leaves the spawn flag false after its start-of-tick
\* update no escape creates a child, and the population does not grow; the
\* only ball such a tick can add is the forced seed of a list that has
\* become empty.
C27_NoSpawnWhileDisabled ==
  [][(TickStep /\ ~spawnEnabled') =>
       /\ \A j \in NewBalls : balls'[j].parent = 0 /\ Len(balls') = 1
       /\ Len(balls') <= Len(balls)]_vars

\* balls have escaped on a tick with the flag off and have no children
C27_Witness ==
  /\ ~spawnEnabled
  /\ lastFrame.ran
  /\ \E i \in 1..Len(balls) : balls[i].escapedAt = simNowMs
  /\ \A i \in 1..Len(balls) :
       balls[i].escapedAt = simNowMs => ChildrenOf(balls, balls[i].id) = {}
  /\ Len(balls) >= SpawnOffAt

\* C28: a ball's radius never changes once the ball is made, a child's
\* radius is at most its parent's, and every ball of the list has a radius
\* from minBallRadius to initialRadius.
C28_RadiusFixed ==
  /\ [](\A i \in 1..Len(balls) :
          balls[i].r >= minBallRadius /\ balls[i].r <= initialRadius)
  /\ [][/\ \A p \in Survivors : balls'[p[2]].r = balls[p[1]].r
        /\ \A j \in NewBalls :
             \A i \in 1..Len(balls) :
               balls[i].id = balls'[j].parent => balls'[j].r <= balls[i].r]_vars

\* two generations of children are in the list with the ball that made the
\* younger ones, all within the bounds
C28_Witness ==
  \E i, j, k \in 1..Len(balls) :
    /\ balls[i].parent # 0
    /\ balls[j].parent = balls[i].id
    /\ balls[k].parent = balls[i].id /\ k # j
    /\ balls[j].r <= balls[i].r
    /\ Escaped(balls[i]) /\ ~Escaped(balls[j])

\* no ball of the list is active
NoActive(s) == \A i \in 1..Len(s) : Escaped(s[i])

\* the clock value of the latest escape among the balls of a non-empty list
LatestEscape(s) ==
  CHOOSE e \in {s[i].escapedAt : i \in 1..Len(s)} :
    \A j \in 1..Len(s) : s[j].escapedAt <= e

\* C29: when a tick leaves only escaped balls, an active ball is back after
\* at most 1400 ms of simulation time plus one tick.  A stretch without
\* active balls begins at the clock value of the latest escape and keeps
\* that ball; the list is not empty and the clock stays less than 1400 ms
\* past that value; the tick that takes the clock to 1400 ms or more past
\* it removes the last fading balls and leaves the new seed ball.
C29_ActiveAgain ==
  /\ [](NoActive(balls) =>
          /\ Len(balls) > 0
          /\ simNowMs - LatestEscape(balls) < FadeDelay + fadeDur)
  /\ [][(TickStep /\ ~NoActive(balls) /\ NoActive(balls')) =>
          LatestEscape(balls') = simNowMs']_vars
  /\ [][(TickStep /\ NoActive(balls) /\ NoActive(balls')) =>
          /\ simNowMs' > simNowMs
          /\ IdsOf(balls') \subseteq IdsOf(balls)
          /\ LatestEscape(balls') = LatestEscape(balls)]_vars
  /\ [][(TickStep /\ NoActive(balls)
           /\ simNowMs' - LatestEscape(balls) >= FadeDelay + fadeDur) =>
          /\ simNowMs' - LatestEscape(balls) < FadeDelay + fadeDur + MaxDt
          /\ Len(balls') = 1
          /\ ~Escaped(balls'[1])
          /\ balls'[1].id = GLOBAL_ID]_vars

\* many balls, all fading, one tick short of 1400 ms after the latest escape
C29_Witness ==
  /\ lastFrame.ran
  /\ Len(balls) >= 2
  /\ NoActive(balls)
  /\ simNowMs + MaxDt - LatestEscape(balls) >= FadeDelay + fadeDur

\* the tick after such a state: the fading balls are gone and the list holds
\* the new seed ball alone, with splitting still switched off
C29_WitnessRecovered ==
  /\ lastFrame.ran
  /\ Len(balls) = 1
  /\ ~Escaped(balls[1])
  /\ balls[1].parent = 0
  /\ balls[1].id = GLOBAL_ID - 1
  /\ ~spawnEnabled

\* C30: a ball of the list has an opacity exactly when it has an escapedAt;
\* the opacity is 1 at the tick of the escape, lies in [0, 1], and does not
\* increase from one tick to the next.  Opacity is in 1/400.
C30_OpacityLifecycle ==
  /\ [](\A i \in 1..Len(balls) :
          /\ balls[i].opacity # Undef <=> balls[i].escapedAt # Undef
          /\ Escaped(balls[i]) =>
               /\ balls[i].opacity >= 0
               /\ balls[i].opacity <= fadeDur
               /\ balls[i].escapedAt = simNowMs => balls[i].opacity = fadeDur)
  /\ [][\A p \in Survivors :
          /\ p \in EscapedNow =>
               /\ balls'[p[2]].escapedAt = simNowMs'
               /\ balls'[p[2]].opacity = fadeDur
          /\ Escaped(balls[p[1]]) =>
               /\ balls'[p[2]].escapedAt = balls[p[1]].escapedAt
               /\ balls'[p[2]].opacity <= balls[p[1]].opacity]_vars

\* a partly faded ball, dimmer than a tick before by the ms of that tick, in
\* a list with a ball that has neither opacity nor escapedAt
C30_Witness ==
  /\ lastFrame.ran
  /\ \E i, j \in 1..Len(balls) :
       /\ Escaped(balls[i])
       /\ balls[i].opacity > 0
       /\ balls[i].opacity < fadeDur
       /\ balls[i].opacity = fadeDur - (simNowMs - balls[i].escapedAt - FadeDelay)
       /\ balls[j].opacity = Undef
       /\ balls[j].escapedAt = Undef

\* a ball at the tick of its escape, fully opaque
C30_WitnessAtEscape ==
  /\ lastFrame.ran
  /\ \E i \in 1..Len(balls) :
       balls[i].escapedAt = simNowMs /\ balls[i].opacity = fadeDur

====
